---- MODULE Spec2Model ----
(***************************************************************************)
(* chrono-intervals: grouped time intervals (per day / week / month).      *)
(*                                                                         *)
(* The model follows the crate's two copies of the interval walker:        *)
(*   - src/intervals_impl/{mod,boundaries}.rs, used by IntervalGenerator,  *)
(*   - src/intervals.rs, used by the free functions get_utc_intervals_opts *)
(*     and get_extended_utc_intervals_with_defaults.                       *)
(* Instants are chrono values: a NaiveDateTime in UTC (day number, second  *)
(* of the day, nanosecond of the second) together with a fixed offset that *)
(* only decides which calendar fields the instant shows.                   *)
(***************************************************************************)
EXTENDS Integers, Sequences, FiniteSets, TLC

VARIABLES
    gen,        \* the IntervalGenerator value held by the caller
    pc,         \* "idle" | "loop" | "done": position inside get_intervals_impl
    api,        \* which entry point is running
    args,       \* the arguments get_intervals_impl was called with
    cur_begin,  \* local variable cur_begin of get_intervals_impl
    cur_end,    \* local variable cur_end of get_intervals_impl
    intervals,  \* local variable intervals of get_intervals_impl
    result      \* the returned Vec<TimeInterval<Utc>>

vars == <<gen, pc, api, args, cur_begin, cur_end, intervals, result>>

-----------------------------------------------------------------------------
(* chrono::Duration: whole seconds plus 0 <= nanos < 10^9.                 *)

NanosPerSec == 1000000000
SecsPerDay == 86400

Duration_new(secs, nanos) == [secs |-> secs, nanos |-> nanos]
Duration_seconds(n) == Duration_new(n, 0)
Duration_hours(n) == Duration_new(n * 3600, 0)
Duration_days(n) == Duration_new(n * SecsPerDay, 0)
Duration_milliseconds(n) ==
    Duration_new(n \div 1000, (n % 1000) * 1000000)
Duration_microseconds(n) ==
    Duration_new(n \div 1000000, (n % 1000000) * 1000)
Duration_nanoseconds(n) ==
    Duration_new(n \div NanosPerSec, n % NanosPerSec)
Duration_neg(d) ==
    IF d.nanos = 0 THEN Duration_new(-d.secs, 0)
    ELSE Duration_new(-d.secs - 1, NanosPerSec - d.nanos)

(* chrono::NaiveDateTime: day number (days since 1970-01-01), second of    *)
(* the day and nanosecond.  Adding a Duration carries nanoseconds into     *)
(* seconds and seconds into days.                                          *)
Naive(d, s, n) == [d |-> d, s |-> s, n |-> n]

NaiveAdd(t, dur) ==
    LET n1 == t.n + dur.nanos
        s1 == t.s + dur.secs + (n1 \div NanosPerSec)
    IN  Naive(t.d + (s1 \div SecsPerDay), s1 % SecsPerDay, n1 % NanosPerSec)

NaiveLess(a, b) ==
    \/ a.d < b.d
    \/ a.d = b.d /\ a.s < b.s
    \/ a.d = b.d /\ a.s = b.s /\ a.n < b.n

(* Proleptic Gregorian calendar: NaiveDate::from_ymd and the year / month  *)
(* / day / weekday fields of a day number.                                 *)
days_from_civil(y, m, d) ==
    LET yy  == IF m <= 2 THEN y - 1 ELSE y
        era == yy \div 400
        yoe == yy - era * 400
        mp  == (m + 9) % 12
        doy == ((153 * mp + 2) \div 5) + d - 1
        doe == yoe * 365 + (yoe \div 4) - (yoe \div 100) + doy
    IN  era * 146097 + doe - 719468

civil_from_days(z) ==
    LET zz  == z + 719468
        era == zz \div 146097
        doe == zz - era * 146097
        yoe == (doe - (doe \div 1460) + (doe \div 36524) - (doe \div 146096)) \div 365
        doy == doe - (365 * yoe + (yoe \div 4) - (yoe \div 100))
        mp  == (5 * doy + 2) \div 153
        d   == doy - ((153 * mp + 2) \div 5) + 1
        m   == IF mp < 10 THEN mp + 3 ELSE mp - 9
        y   == yoe + era * 400
    IN  [year |-> IF m <= 2 THEN y + 1 ELSE y, month |-> m, day |-> d]

(* Weekday as i64: Monday = 0 .. Sunday = 6 (1970-01-01 was a Thursday).   *)
weekday_of_days(z) == (z + 3) % 7

-----------------------------------------------------------------------------
(* chrono::DateTime<Tz>: the UTC NaiveDateTime and the offset (seconds     *)
(* east of UTC) of its time zone.                                          *)

DateTime(datetime, offset) == [datetime |-> datetime, offset |-> offset]

\* FixedOffset::west(secs): a zone secs seconds west of UTC.
\* Faulty variant: the seconds taken east of UTC.
FixedOffset_east(secs) == secs

FixedOffset_west(secs) == -secs

\* FixedOffset::west panics unless -86400 < secs < 86400.
FixedOffset_west_in_bounds(secs) == -SecsPerDay < secs /\ secs < SecsPerDay

\* The Utc zone has offset 0.
Utc == 0

\* DateTime::with_timezone: same instant, other offset.
with_timezone(dt, tz) == DateTime(dt.datetime, tz)

\* DateTime::naive_local: the calendar fields shown in the zone.
naive_local(dt) == NaiveAdd(dt.datetime, Duration_seconds(dt.offset))

\* dt.date().and_hms(0, 0, 0): midnight of the local date, in the same zone.
date_and_hms_0(dt) ==
    DateTime(NaiveAdd(Naive(naive_local(dt).d, 0, 0),
                      Duration_seconds(-dt.offset)),
             dt.offset)

\* Faulty variant: the midnight of the date taken in UTC, then shown in tz.
ymd_and_hms_0_in_utc(tz, y, m, d) ==
    DateTime(Naive(days_from_civil(y, m, d), 0, 0), tz)

\* tz.ymd(y, m, d).and_hms(0, 0, 0)
ymd_and_hms_0(tz, y, m, d) ==
    DateTime(NaiveAdd(Naive(days_from_civil(y, m, d), 0, 0),
                      Duration_seconds(-tz)),
             tz)

year(dt) == civil_from_days(naive_local(dt).d).year
month(dt) == civil_from_days(naive_local(dt).d).month
weekday(dt) == weekday_of_days(naive_local(dt).d)

\* DateTime + Duration and DateTime - Duration keep the zone.
dt_add(dt, dur) == DateTime(NaiveAdd(dt.datetime, dur), dt.offset)
dt_sub(dt, dur) == DateTime(NaiveAdd(dt.datetime, Duration_neg(dur)), dt.offset)

\* Ordering and equality of DateTime compare the instants only.
dt_lt(a, b) == NaiveLess(a.datetime, b.datetime)
dt_eq(a, b) == a.datetime = b.datetime
dt_le(a, b) == dt_lt(a, b) \/ dt_eq(a, b)
dt_ge(a, b) == ~dt_lt(a, b)

-----------------------------------------------------------------------------
(* src/intervals_impl/boundaries.rs: the boundary calculator used by       *)
(* IntervalGenerator.  Each operator returns the pair <<begin, end>>.      *)

\* Faulty variant: the next month reached by a fixed step of 31 days from
\* the midnight of the given date.
next_month_start_adding_31_days(datetime) ==
    dt_add(date_and_hms_0(datetime), Duration_days(31))

next_month_start(datetime) ==
    ymd_and_hms_0(datetime.offset,
                  IF month(datetime) = 12 THEN year(datetime) + 1
                                          ELSE year(datetime),
                  IF month(datetime) = 12 THEN 1 ELSE month(datetime) + 1,
                  1)

\* Faulty variant: extend_begin ignored, the day of begin is always included.
get_initial_begin_end_times_day_always_extended(begin, local_timezone, end_precision, extend_begin) ==
    LET init_begin == date_and_hms_0(with_timezone(begin, local_timezone))
        init_end == dt_sub(dt_add(init_begin, Duration_hours(24)), end_precision)
    IN  <<init_begin, init_end>>

\* Faulty variant: begin is not localized, its own zone decides the date.
get_initial_begin_end_times_day_not_localized(begin, local_timezone, end_precision, extend_begin) ==
    LET init_begin ==
            IF extend_begin
            THEN date_and_hms_0(begin)
            ELSE dt_add(date_and_hms_0(begin), Duration_hours(24))
        init_end == dt_sub(dt_add(init_begin, Duration_hours(24)), end_precision)
    IN  <<init_begin, init_end>>

\* Faulty variant: a begin that lies on a local midnight keeps its own day
\* even without extend_begin.
get_initial_begin_end_times_day_keeps_boundary_day(begin, local_timezone, end_precision, extend_begin) ==
    LET midnight == date_and_hms_0(with_timezone(begin, local_timezone))
        init_begin ==
            IF extend_begin \/ dt_eq(midnight, begin)
            THEN midnight
            ELSE dt_add(midnight, Duration_hours(24))
        init_end == dt_sub(dt_add(init_begin, Duration_hours(24)), end_precision)
    IN  <<init_begin, init_end>>

get_initial_begin_end_times_day(begin, local_timezone, end_precision, extend_begin) ==
    LET init_begin ==
            IF extend_begin
            THEN date_and_hms_0(with_timezone(begin, local_timezone))
            ELSE dt_add(date_and_hms_0(with_timezone(begin, local_timezone)),
                        Duration_hours(24))
        init_end == dt_sub(dt_add(init_begin, Duration_hours(24)), end_precision)
    IN  <<init_begin, init_end>>

\* Faulty variant: off by one, 6 - d days instead of 7 - d.
get_initial_begin_end_times_week_off_by_one(begin, local_timezone, end_precision, extend_begin) ==
    LET localized_begin == with_timezone(begin, local_timezone)
        num_days_since_monday == weekday(localized_begin)
        init_begin ==
            IF extend_begin
            THEN dt_sub(date_and_hms_0(localized_begin),
                        Duration_days(num_days_since_monday))
            ELSE dt_add(date_and_hms_0(localized_begin),
                        Duration_days(6 - num_days_since_monday))
        init_end == dt_sub(dt_add(init_begin, Duration_days(7)), end_precision)
    IN  <<init_begin, init_end>>

\* Faulty variant: weekdays counted from Sunday instead of Monday.
get_initial_begin_end_times_week_from_sunday(begin, local_timezone, end_precision, extend_begin) ==
    LET localized_begin == with_timezone(begin, local_timezone)
        num_days_since_sunday == (weekday(localized_begin) + 1) % 7
        init_begin ==
            IF extend_begin
            THEN dt_sub(date_and_hms_0(localized_begin),
                        Duration_days(num_days_since_sunday))
            ELSE dt_add(date_and_hms_0(localized_begin),
                        Duration_days(7 - num_days_since_sunday))
        init_end == dt_sub(dt_add(init_begin, Duration_days(7)), end_precision)
    IN  <<init_begin, init_end>>

\* Faulty variant: the week is found in the zone begin is written in.
get_initial_begin_end_times_week_in_display_zone(begin, local_timezone, end_precision, extend_begin) ==
    LET localized_begin == begin
        num_days_since_monday == weekday(localized_begin)
        init_begin ==
            IF extend_begin
            THEN dt_sub(date_and_hms_0(localized_begin),
                        Duration_days(num_days_since_monday))
            ELSE dt_add(date_and_hms_0(localized_begin),
                        Duration_days(7 - num_days_since_monday))
        init_end == dt_sub(dt_add(init_begin, Duration_days(7)), end_precision)
    IN  <<init_begin, init_end>>

\* Faulty variant: 7 - d taken modulo 7, so that a begin on a Monday keeps
\* its own Monday without extend_begin.
get_initial_begin_end_times_week_monday_stays(begin, local_timezone, end_precision, extend_begin) ==
    LET localized_begin == with_timezone(begin, local_timezone)
        num_days_since_monday == weekday(localized_begin)
        init_begin ==
            IF extend_begin
            THEN dt_sub(date_and_hms_0(localized_begin),
                        Duration_days(num_days_since_monday))
            ELSE dt_add(date_and_hms_0(localized_begin),
                        Duration_days((7 - num_days_since_monday) % 7))
        init_end == dt_sub(dt_add(init_begin, Duration_days(7)), end_precision)
    IN  <<init_begin, init_end>>

get_initial_begin_end_times_week(begin, local_timezone, end_precision, extend_begin) ==
    LET localized_begin == with_timezone(begin, local_timezone)
        num_days_since_monday == weekday(localized_begin)
        init_begin ==
            IF extend_begin
            THEN dt_sub(date_and_hms_0(localized_begin),
                        Duration_days(num_days_since_monday))
            ELSE dt_add(date_and_hms_0(localized_begin),
                        Duration_days(7 - num_days_since_monday))
        init_end == dt_sub(dt_add(init_begin, Duration_days(7)), end_precision)
    IN  <<init_begin, init_end>>

\* Faulty variant: the day of begin is kept, the month is not rewound to
\* its first day.
get_initial_begin_end_times_month_from_begin_day(begin, local_timezone, end_precision, extend_begin) ==
    LET localized_begin == with_timezone(begin, local_timezone)
        init_begin ==
            IF extend_begin
            THEN date_and_hms_0(localized_begin)
            ELSE next_month_start(localized_begin)
        init_end == dt_sub(next_month_start(init_begin), end_precision)
    IN  <<init_begin, init_end>>

\* Faulty variant: extend_begin ignored, the month of begin is never included.
get_initial_begin_end_times_month_never_extended(begin, local_timezone, end_precision, extend_begin) ==
    LET localized_begin == with_timezone(begin, local_timezone)
        init_begin == next_month_start(localized_begin)
        init_end == dt_sub(next_month_start(init_begin), end_precision)
    IN  <<init_begin, init_end>>

get_initial_begin_end_times_month(begin, local_timezone, end_precision, extend_begin) ==
    LET localized_begin == with_timezone(begin, local_timezone)
        init_begin ==
            IF extend_begin
            THEN ymd_and_hms_0(local_timezone, year(localized_begin),
                               month(localized_begin), 1)
            ELSE next_month_start(localized_begin)
        init_end == dt_sub(next_month_start(init_begin), end_precision)
    IN  <<init_begin, init_end>>

\* Faulty variant: the end is taken one millisecond before the next
\* midnight, whatever end_precision is.
get_next_begin_end_times_day_millisecond_end(cb, end_precision) ==
    LET nb == dt_add(cb, Duration_hours(24))
        ne == dt_sub(dt_add(nb, Duration_hours(24)), Duration_milliseconds(1))
    IN  <<nb, ne>>

\* Faulty variant: the walker steps 48 hours and skips every other day.
get_next_begin_end_times_day_skipping_a_day(cb, end_precision) ==
    LET nb == dt_add(cb, Duration_hours(48))
        ne == dt_sub(dt_add(nb, Duration_hours(24)), end_precision)
    IN  <<nb, ne>>

\* Faulty variant: a precision outside 0 .. 24h is replaced by 1ms.
get_next_begin_end_times_day_validated_precision(cb, end_precision) ==
    LET nb == dt_add(cb, Duration_hours(24))
        p  == IF end_precision.secs < 0 \/ end_precision.secs >= SecsPerDay
              THEN Duration_milliseconds(1) ELSE end_precision
        ne == dt_sub(dt_add(nb, Duration_hours(24)), p)
    IN  <<nb, ne>>

\* Faulty variant: the walker steps 12 hours only.
get_next_begin_end_times_day_half_step(cb, end_precision) ==
    LET nb == dt_add(cb, Duration_hours(12))
        ne == dt_sub(dt_add(nb, Duration_hours(24)), end_precision)
    IN  <<nb, ne>>

get_next_begin_end_times_day(cb, end_precision) ==
    LET nb == dt_add(cb, Duration_hours(24))
        ne == dt_sub(dt_add(nb, Duration_hours(24)), end_precision)
    IN  <<nb, ne>>

\* Faulty variant: the precision is not subtracted, the end is the next
\* Monday itself.
get_next_begin_end_times_week_without_gap(cb, end_precision) ==
    LET nb == dt_add(cb, Duration_days(7))
        ne == dt_add(nb, Duration_days(7))
    IN  <<nb, ne>>

get_next_begin_end_times_week(cb, end_precision) ==
    LET nb == dt_add(cb, Duration_days(7))
        ne == dt_sub(dt_add(nb, Duration_days(7)), end_precision)
    IN  <<nb, ne>>

\* Faulty variant: the next month reached by adding a fixed 31 days.
get_next_begin_end_times_month_fixed_duration(cb, end_precision) ==
    LET nb == dt_add(cb, Duration_days(31))
        ne == dt_sub(next_month_start(nb), end_precision)
    IN  <<nb, ne>>

get_next_begin_end_times_month(cb, end_precision) ==
    LET nb == next_month_start(cb)
        ne == dt_sub(next_month_start(nb), end_precision)
    IN  <<nb, ne>>

-----------------------------------------------------------------------------
(* src/intervals.rs: the private copies of the boundary calculator used by *)
(* the free functions.                                                     *)

intervals_next_month_start(datetime) ==
    ymd_and_hms_0(datetime.offset,
                  IF month(datetime) = 12 THEN year(datetime) + 1
                                          ELSE year(datetime),
                  IF month(datetime) = 12 THEN 1 ELSE month(datetime) + 1,
                  1)

intervals_get_initial_begin_end_times_day(begin, local_timezone, end_precision, extend_begin) ==
    LET init_begin ==
            IF extend_begin
            THEN date_and_hms_0(with_timezone(begin, local_timezone))
            ELSE dt_add(date_and_hms_0(with_timezone(begin, local_timezone)),
                        Duration_hours(24))
        init_end == dt_sub(dt_add(init_begin, Duration_hours(24)), end_precision)
    IN  <<init_begin, init_end>>

intervals_get_initial_begin_end_times_week(begin, local_timezone, end_precision, extend_begin) ==
    LET localized_begin == with_timezone(begin, local_timezone)
        num_days_since_monday == weekday(localized_begin)
        init_begin ==
            IF extend_begin
            THEN dt_sub(date_and_hms_0(localized_begin),
                        Duration_days(num_days_since_monday))
            ELSE dt_add(date_and_hms_0(localized_begin),
                        Duration_days(7 - num_days_since_monday))
        init_end == dt_sub(dt_add(init_begin, Duration_days(7)), end_precision)
    IN  <<init_begin, init_end>>

intervals_get_initial_begin_end_times_month(begin, local_timezone, end_precision, extend_begin) ==
    LET localized_begin == with_timezone(begin, local_timezone)
        init_begin ==
            IF extend_begin
            THEN ymd_and_hms_0(local_timezone, year(localized_begin),
                               month(localized_begin), 1)
            ELSE intervals_next_month_start(localized_begin)
        init_end == dt_sub(intervals_next_month_start(init_begin), end_precision)
    IN  <<init_begin, init_end>>

intervals_get_next_begin_end_times_day(cb, end_precision) ==
    LET nb == dt_add(cb, Duration_hours(24))
        ne == dt_sub(dt_add(nb, Duration_hours(24)), end_precision)
    IN  <<nb, ne>>

intervals_get_next_begin_end_times_week(cb, end_precision) ==
    LET nb == dt_add(cb, Duration_days(7))
        ne == dt_sub(dt_add(nb, Duration_days(7)), end_precision)
    IN  <<nb, ne>>

intervals_get_next_begin_end_times_month(cb, end_precision) ==
    LET nb == intervals_next_month_start(cb)
        ne == dt_sub(intervals_next_month_start(nb), end_precision)
    IN  <<nb, ne>>

-----------------------------------------------------------------------------
(* Inputs.  begin and end are written in a display zone; end lies a few    *)
(* days or grouping periods after (or before) begin's local date.          *)

MaxSpan == 2

Groupings == {"PerDay", "PerWeek", "PerMonth"}

Precisions ==
    { Duration_nanoseconds(1), Duration_microseconds(1), Duration_milliseconds(1),
      Duration_seconds(0), Duration_seconds(-1),
      Duration_hours(24), Duration_days(8) }

OffsetsWest == {0, 7 * 3600, -2 * 3600}

\* Offsets of a whole day, which FixedOffset::west does not accept.
OffsetsWestOutOfBounds == {SecsPerDay, -SecsPerDay}

InputDates == { <<2022, 10, 29>>, <<2022, 10, 31>>, <<2023, 12, 31>>, <<2024, 1, 1>> }

\* Times of day: midnight and 08:23:45 for begin; for end also the last
\* millisecond of the day and an instant inside that millisecond.
BeginTimes == { [s |-> 0, n |-> 0], [s |-> 8 * 3600 + 23 * 60 + 45, n |-> 0] }

EndTimes ==
    BeginTimes \cup { [s |-> 86399, n |-> 999000000], [s |-> 86399, n |-> 999500000] }

InputOffsets == {0, 7200}

PeriodDays(g) == CASE g = "PerDay" -> 1 [] g = "PerWeek" -> 7 [] g = "PerMonth" -> 31

EndDayDeltas(g) == {0, 1} \cup { k * PeriodDays(g) : k \in 1..MaxSpan }

\* The instant shown as local day number d, time of day t in the zone off.
LocalInstant(d, t, off) ==
    DateTime(NaiveAdd(Naive(d, t.s, t.n), Duration_seconds(-off)), off)

Begins ==
    { LocalInstant(days_from_civil(ymd[1], ymd[2], ymd[3]), t, off) :
        ymd \in InputDates, t \in BeginTimes, off \in InputOffsets }

Ends(begin, g) ==
    { LocalInstant(naive_local(begin).d + k, t, begin.offset) :
        k \in EndDayDeltas(g), t \in EndTimes }

-----------------------------------------------------------------------------
(* src/generator.rs: IntervalGenerator.                                    *)

IntervalGenerator_new ==
    [ grouping       |-> "PerDay",
      end_precision  |-> Duration_milliseconds(1),
      local_timezone |-> FixedOffset_west(0),
      extend_begin   |-> TRUE,
      extend_end     |-> TRUE ]

NoDateTime == DateTime(Naive(0, 0, 0), Utc)

NoArgs ==
    [ begin |-> NoDateTime, end |-> NoDateTime, grouping |-> "PerDay",
      end_precision |-> Duration_seconds(0), local_timezone |-> Utc,
      extend_begin |-> FALSE, extend_end |-> FALSE ]

Init ==
    /\ gen = IntervalGenerator_new
    /\ pc = "idle"
    /\ api = "none"
    /\ args = NoArgs
    /\ cur_begin = NoDateTime
    /\ cur_end = NoDateTime
    /\ intervals = <<>>
    /\ result = <<>>

Builder(g) ==
    /\ pc = "idle"
    /\ gen' = g
    /\ UNCHANGED <<pc, api, args, cur_begin, cur_end, intervals, result>>

new == Builder(IntervalGenerator_new)

with_grouping == \E g \in Groupings : Builder([gen EXCEPT !.grouping = g])

with_precision == \E p \in Precisions : Builder([gen EXCEPT !.end_precision = p])

\* A panic of FixedOffset::west inside the call name: the call unwinds and
\* returns nothing.
FixedOffset_west_panic(name) ==
    /\ pc = "idle"
    /\ pc' = "panicked"
    /\ api' = name
    /\ UNCHANGED <<gen, args, cur_begin, cur_end, intervals, result>>

with_offset_west_secs ==
    \E w \in OffsetsWest \cup OffsetsWestOutOfBounds :
        IF FixedOffset_west_in_bounds(w)
        THEN Builder([gen EXCEPT !.local_timezone = FixedOffset_west(w)])
        ELSE FixedOffset_west_panic("with_offset_west_secs")

without_extended_begin == Builder([gen EXCEPT !.extend_begin = FALSE])

\* Faulty variant: the builder also switches extend_begin back on.
without_extended_end_resetting_extended_begin ==
    Builder([gen EXCEPT !.extend_end = FALSE, !.extend_begin = TRUE])

without_extended_end == Builder([gen EXCEPT !.extend_end = FALSE])

-----------------------------------------------------------------------------
(* src/intervals_impl/mod.rs: get_intervals_impl, the walker behind        *)
(* IntervalGenerator::get_intervals.                                       *)

initial_begin_end(a) ==
    CASE a.grouping = "PerDay" ->
           get_initial_begin_end_times_day(a.begin, a.local_timezone,
                                           a.end_precision, a.extend_begin)
      [] a.grouping = "PerWeek" ->
           get_initial_begin_end_times_week(a.begin, a.local_timezone,
                                            a.end_precision, a.extend_begin)
      [] a.grouping = "PerMonth" ->
           get_initial_begin_end_times_month(a.begin, a.local_timezone,
                                             a.end_precision, a.extend_begin)

next_begin_end(a, cb) ==
    CASE a.grouping = "PerDay" -> get_next_begin_end_times_day(cb, a.end_precision)
      [] a.grouping = "PerWeek" -> get_next_begin_end_times_week(cb, a.end_precision)
      [] a.grouping = "PerMonth" -> get_next_begin_end_times_month(cb, a.end_precision)

\* Faulty variant of the guard: begin > end only.
begin_after_end(a) == dt_lt(a.end, a.begin)

\* The guard of line 27.
begin_not_before_end(a) == dt_ge(a.begin, a.end)

\* Faulty variants of the final push: flag inverted, push forgotten.
push_unless_extend_end(ivs, cb, ce, extend_end) ==
    IF extend_end THEN ivs ELSE Append(ivs, <<cb, ce>>)

push_never(ivs, cb, ce, extend_end) == ivs

\* Lines 54-56: the pending pair is kept only when extend_end is set.
push_if_extend_end(ivs, cb, ce, extend_end) ==
    IF extend_end THEN Append(ivs, <<cb, ce>>) ELSE ivs

\* Lines 58-66: every pair re-expressed in the output zone.
to_output(ivs, output_timezone) ==
    [ i \in 1..Len(ivs) |-> << with_timezone(ivs[i][1], output_timezone),
                               with_timezone(ivs[i][2], output_timezone) >> ]

\* Entry of get_intervals_impl up to the head of the while loop.
get_intervals_impl_enter(name, a) ==
    /\ api' = name
    /\ args' = a
    /\ IF begin_not_before_end(a)
       THEN /\ pc' = "done"
            /\ result' = <<>>
            /\ UNCHANGED <<cur_begin, cur_end, intervals>>
       ELSE /\ pc' = "loop"
            /\ cur_begin' = initial_begin_end(a)[1]
            /\ cur_end' = initial_begin_end(a)[2]
            /\ intervals' = <<>>
            /\ UNCHANGED result
    /\ UNCHANGED gen

get_intervals ==
    /\ pc = "idle"
    /\ \E begin \in Begins : \E end \in Ends(begin, gen.grouping) :
        get_intervals_impl_enter("get_intervals",
            [ begin |-> begin, end |-> end, grouping |-> gen.grouping,
              end_precision |-> gen.end_precision,
              local_timezone |-> gen.local_timezone,
              extend_begin |-> gen.extend_begin, extend_end |-> gen.extend_end ])

\* One iteration of the while loop of lines 44-52.
get_intervals_impl_while ==
    /\ pc = "loop"
    /\ api = "get_intervals"
    /\ dt_lt(cur_end, args.end)
    /\ intervals' = Append(intervals, <<cur_begin, cur_end>>)
    /\ cur_begin' = next_begin_end(args, cur_begin)[1]
    /\ cur_end' = next_begin_end(args, cur_begin)[2]
    /\ UNCHANGED <<gen, pc, api, args, result>>

\* Loop exit, the extend_end push and the conversion of lines 54-66.
get_intervals_impl_return ==
    /\ pc = "loop"
    /\ api = "get_intervals"
    /\ ~dt_lt(cur_end, args.end)
    /\ result' = to_output(push_if_extend_end(intervals, cur_begin, cur_end,
                                              args.extend_end), Utc)
    /\ pc' = "done"
    /\ cur_begin' = NoDateTime
    /\ cur_end' = NoDateTime
    /\ intervals' = <<>>
    /\ UNCHANGED <<gen, api, args>>

\* get_intervals_impl as a function of its arguments: the loop of lines
\* 44-52 unrolled from the pair cur = <<cur_begin, cur_end>>, then the push
\* of lines 54-56.
RECURSIVE get_intervals_impl_loop(_, _, _)
get_intervals_impl_loop(a, cur, ivs) ==
    IF dt_lt(cur[2], a.end)
    THEN get_intervals_impl_loop(a, next_begin_end(a, cur[1]), Append(ivs, cur))
    ELSE push_if_extend_end(ivs, cur[1], cur[2], a.extend_end)

get_intervals_impl(a) ==
    IF begin_not_before_end(a)
    THEN <<>>
    ELSE to_output(get_intervals_impl_loop(a, initial_begin_end(a), <<>>), Utc)

-----------------------------------------------------------------------------
(* src/intervals.rs: the free functions and their private walker.          *)

intervals_initial_begin_end(a) ==
    CASE a.grouping = "PerDay" ->
           intervals_get_initial_begin_end_times_day(a.begin, a.local_timezone,
                                                     a.end_precision, a.extend_begin)
      [] a.grouping = "PerWeek" ->
           intervals_get_initial_begin_end_times_week(a.begin, a.local_timezone,
                                                      a.end_precision, a.extend_begin)
      [] a.grouping = "PerMonth" ->
           intervals_get_initial_begin_end_times_month(a.begin, a.local_timezone,
                                                       a.end_precision, a.extend_begin)

intervals_next_begin_end(a, cb) ==
    CASE a.grouping = "PerDay" ->
           intervals_get_next_begin_end_times_day(cb, a.end_precision)
      [] a.grouping = "PerWeek" ->
           intervals_get_next_begin_end_times_week(cb, a.end_precision)
      [] a.grouping = "PerMonth" ->
           intervals_get_next_begin_end_times_month(cb, a.end_precision)

\* Lines 110-112.
intervals_push_if_extend_end(ivs, cb, ce, extend_end) ==
    IF extend_end THEN Append(ivs, <<cb, ce>>) ELSE ivs

\* Entry of the private get_intervals_impl (lines 87-98): no guard on begin
\* and end, the walker always computes the initial pair.
intervals_get_intervals_impl_enter(name, a) ==
    /\ api' = name
    /\ args' = a
    /\ pc' = "loop"
    /\ cur_begin' = intervals_initial_begin_end(a)[1]
    /\ cur_end' = intervals_initial_begin_end(a)[2]
    /\ intervals' = <<>>
    /\ UNCHANGED <<gen, result>>

get_utc_intervals_opts ==
    /\ pc = "idle"
    /\ gen = IntervalGenerator_new
    /\ \/ \E grouping \in Groupings, offset_west_seconds \in OffsetsWest,
             end_precision \in Precisions, extend_begin \in BOOLEAN, extend_end \in BOOLEAN :
         \E begin \in Begins : \E end \in Ends(begin, grouping) :
           intervals_get_intervals_impl_enter("get_utc_intervals_opts",
               [ begin |-> begin, end |-> end, grouping |-> grouping,
                 end_precision |-> end_precision,
                 local_timezone |-> FixedOffset_west(offset_west_seconds),
                 extend_begin |-> extend_begin, extend_end |-> extend_end ])
       \/ \E offset_west_seconds \in OffsetsWestOutOfBounds :
           /\ ~FixedOffset_west_in_bounds(offset_west_seconds)
           /\ FixedOffset_west_panic("get_utc_intervals_opts")

\* Faulty variant: the baked-in precision is one second.
get_extended_utc_intervals_with_defaults_second_precision ==
    /\ pc = "idle"
    /\ gen = IntervalGenerator_new
    /\ \/ \E grouping \in Groupings, offset_west_seconds \in OffsetsWest :
         \E begin \in Begins : \E end \in Ends(begin, grouping) :
           intervals_get_intervals_impl_enter("get_extended_utc_intervals_with_defaults",
               [ begin |-> begin, end |-> end, grouping |-> grouping,
                 end_precision |-> Duration_seconds(1),
                 local_timezone |-> FixedOffset_west(offset_west_seconds),
                 extend_begin |-> TRUE, extend_end |-> TRUE ])
       \/ \E offset_west_seconds \in OffsetsWestOutOfBounds :
           /\ ~FixedOffset_west_in_bounds(offset_west_seconds)
           /\ FixedOffset_west_panic("get_extended_utc_intervals_with_defaults")

get_extended_utc_intervals_with_defaults ==
    /\ pc = "idle"
    /\ gen = IntervalGenerator_new
    /\ \/ \E grouping \in Groupings, offset_west_seconds \in OffsetsWest :
         \E begin \in Begins : \E end \in Ends(begin, grouping) :
           intervals_get_intervals_impl_enter("get_extended_utc_intervals_with_defaults",
               [ begin |-> begin, end |-> end, grouping |-> grouping,
                 end_precision |-> Duration_milliseconds(1),
                 local_timezone |-> FixedOffset_west(offset_west_seconds),
                 extend_begin |-> TRUE, extend_end |-> TRUE ])
       \/ \E offset_west_seconds \in OffsetsWestOutOfBounds :
           /\ ~FixedOffset_west_in_bounds(offset_west_seconds)
           /\ FixedOffset_west_panic("get_extended_utc_intervals_with_defaults")

intervals_get_intervals_impl_while ==
    /\ pc = "loop"
    /\ api # "get_intervals"
    /\ dt_lt(cur_end, args.end)
    /\ intervals' = Append(intervals, <<cur_begin, cur_end>>)
    /\ cur_begin' = intervals_next_begin_end(args, cur_begin)[1]
    /\ cur_end' = intervals_next_begin_end(args, cur_begin)[2]
    /\ UNCHANGED <<gen, pc, api, args, result>>

intervals_get_intervals_impl_return ==
    /\ pc = "loop"
    /\ api # "get_intervals"
    /\ ~dt_lt(cur_end, args.end)
    /\ result' = to_output(intervals_push_if_extend_end(intervals, cur_begin, cur_end,
                                                        args.extend_end), Utc)
    /\ pc' = "done"
    /\ cur_begin' = NoDateTime
    /\ cur_end' = NoDateTime
    /\ intervals' = <<>>
    /\ UNCHANGED <<gen, api, args>>

\* The private get_intervals_impl as a function of its arguments (lines
\* 87-122).
RECURSIVE intervals_get_intervals_impl_loop(_, _, _)
intervals_get_intervals_impl_loop(a, cur, ivs) ==
    IF dt_lt(cur[2], a.end)
    THEN intervals_get_intervals_impl_loop(a, intervals_next_begin_end(a, cur[1]),
                                           Append(ivs, cur))
    ELSE intervals_push_if_extend_end(ivs, cur[1], cur[2], a.extend_end)

intervals_get_intervals_impl(a) ==
    to_output(intervals_get_intervals_impl_loop(a, intervals_initial_begin_end(a), <<>>),
              Utc)

\* get_utc_intervals_opts as a function of its arguments.
get_utc_intervals_opts_value(begin, end, grouping, offset_west_seconds, end_precision, extend_begin, extend_end) ==
    intervals_get_intervals_impl(
        [ begin |-> begin, end |-> end, grouping |-> grouping,
          end_precision |-> end_precision,
          local_timezone |-> FixedOffset_west(offset_west_seconds),
          extend_begin |-> extend_begin, extend_end |-> extend_end ])

\* IntervalGenerator::get_intervals as a function of the generator and its
\* arguments.
get_intervals_value(g, begin, end) ==
    get_intervals_impl(
        [ begin |-> begin, end |-> end, grouping |-> g.grouping,
          end_precision |-> g.end_precision,
          local_timezone |-> g.local_timezone,
          extend_begin |-> g.extend_begin, extend_end |-> g.extend_end ])

\* The caller drops the returned sequence.
drop_result ==
    /\ pc = "done"
    /\ pc' = "idle"
    /\ api' = "none"
    /\ args' = NoArgs
    /\ result' = <<>>
    /\ UNCHANGED <<gen, cur_begin, cur_end, intervals>>

Next ==
    \/ new
    \/ with_grouping
    \/ with_precision
    \/ with_offset_west_secs
    \/ without_extended_begin
    \/ without_extended_end
    \/ get_intervals
    \/ get_intervals_impl_while
    \/ get_intervals_impl_return
    \/ get_utc_intervals_opts
    \/ get_extended_utc_intervals_with_defaults
    \/ intervals_get_intervals_impl_while
    \/ intervals_get_intervals_impl_return
    \/ drop_result

Spec == Init /\ [][Next]_vars

\* One iteration of the loop of either walker.
get_intervals_impl_loop_body ==
    \/ get_intervals_impl_while
    \/ intervals_get_intervals_impl_while

\* Weak fairness of the loop body, with ENABLED <<get_intervals_impl_loop_body>>_vars
\* written out: the body can run exactly when a walker is at its loop and
\* the loop condition cur_end < end holds, and running it lengthens intervals.
Fair_get_intervals_impl_loop_body ==
    \/ []<>(~(pc = "loop" /\ dt_lt(cur_end, args.end)))
    \/ []<><<get_intervals_impl_loop_body>>_vars

\* get_intervals_impl is straight-line code: once entered, its loop keeps
\* stepping and its return is taken when the loop condition fails.
FairSpec ==
    /\ Spec
    /\ Fair_get_intervals_impl_loop_body
    /\ WF_vars(get_intervals_impl_return)
    /\ WF_vars(intervals_get_intervals_impl_return)

-----------------------------------------------------------------------------
(* Vocabulary of the properties.                                           *)

Returned == pc = "done"
ByGenerator == api = "get_intervals"
ByFreeFunction ==
    api \in {"get_utc_intervals_opts", "get_extended_utc_intervals_with_defaults"}

BeginBeforeEnd == NaiveLess(args.begin.datetime, args.end.datetime)

First(seq) == seq[1]
Last(seq) == seq[Len(seq)]

\* A local day number that starts a period of grouping g.
IsBoundaryDay(z, g) ==
    \/ g = "PerDay"
    \/ g = "PerWeek" /\ weekday_of_days(z) = 0
    \/ g = "PerMonth" /\ civil_from_days(z).day = 1

\* dt is a boundary of grouping g in the zone tz: local midnight of a
\* boundary day.
IsBoundary(dt, g, tz) ==
    LET l == naive_local(with_timezone(dt, tz))
    IN  l.s = 0 /\ l.n = 0 /\ IsBoundaryDay(l.d, g)

IsLeapYear(y) == (y % 4 = 0 /\ y % 100 # 0) \/ y % 400 = 0

DaysInMonth(y, m) ==
    CASE m = 2 -> (IF IsLeapYear(y) THEN 29 ELSE 28)
      [] m \in {4, 6, 9, 11} -> 30
      [] OTHER -> 31

\* The number of days from the local day z to the first boundary day of
\* grouping g after it.
DaysToNextBoundary(z, g) ==
    CASE g = "PerDay" -> 1
      [] g = "PerWeek" -> 7 - weekday_of_days(z)
      [] g = "PerMonth" ->
           LET c == civil_from_days(z)
           IN  DaysInMonth(c.year, c.month) - c.day + 1

\* The earliest boundary of grouping g in the zone tz strictly after dt.
FirstBoundaryAfter(dt, g, tz) ==
    LET d0 == naive_local(with_timezone(dt, tz)).d
    IN  LocalInstant(d0 + DaysToNextBoundary(d0, g), [s |-> 0, n |-> 0], tz)

-----------------------------------------------------------------------------
\* C1: for begin >= end, IntervalGenerator::get_intervals (the walker of
\* intervals_impl) returns an empty sequence, whatever the grouping, offset,
\* precision and extension flags.
C1_EmptyForDegenerateSpan ==
    (Returned /\ ByGenerator /\ ~BeginBeforeEnd) => result = <<>>

C1_Witness ==
    /\ Returned /\ ByGenerator
    /\ args.begin.datetime = args.end.datetime
    /\ args.extend_end /\ args.extend_begin
    /\ args.grouping = "PerWeek"
    /\ result = <<>>

\* C2: for begin >= end, the free functions get_utc_intervals_opts and
\* get_extended_utc_intervals_with_defaults return an empty sequence.
C2_FreeFunctionsEmptyForDegenerateSpan ==
    (Returned /\ ByFreeFunction /\ ~BeginBeforeEnd) => result = <<>>

\* C3 as stated: the walker's result is empty if and only if begin >= end.
C3_EmptyIffDegenerate ==
    (Returned /\ ByGenerator) => (result = <<>> <=> ~BeginBeforeEnd)

\* C3 amended: the walker's result is empty whenever begin >= end, and for
\* begin < end it holds at least one interval whenever extend_end is set.
C3_EmptyIfDegenerateNonEmptyIfExtended ==
    (Returned /\ ByGenerator) =>
        /\ ~BeginBeforeEnd => result = <<>>
        /\ (BeginBeforeEnd /\ args.extend_end) => Len(result) >= 1

C3_Witness ==
    /\ Returned /\ ByGenerator /\ BeginBeforeEnd
    /\ args.extend_end /\ ~args.extend_begin
    /\ Len(result) = 1

\* C4: without extension, a span begin < end holding no complete period (the
\* first boundary after begin, plus one period, minus precision, is not
\* earlier than end) yields an empty sequence, through the generator and through
\* get_utc_intervals_opts alike.
NoCompletePeriod ==
    LET b1 == FirstBoundaryAfter(args.begin, args.grouping, args.local_timezone)
        b2 == FirstBoundaryAfter(b1, args.grouping, args.local_timezone)
    IN  ~NaiveLess(NaiveAdd(b2.datetime, Duration_neg(args.end_precision)),
                   args.end.datetime)

C4_EmptyWithoutCompletePeriod ==
    ( /\ Returned
      /\ api \in {"get_intervals", "get_utc_intervals_opts"}
      /\ ~args.extend_begin /\ ~args.extend_end
      /\ BeginBeforeEnd
      /\ NoCompletePeriod ) => result = <<>>

C4_Witness ==
    /\ Returned /\ ByGenerator
    /\ ~args.extend_begin /\ ~args.extend_end
    /\ BeginBeforeEnd /\ NoCompletePeriod
    /\ args.grouping = "PerDay"
    /\ naive_local(args.begin).d = naive_local(args.end).d
    /\ result = <<>>

\* C5: contiguity.  In every result, each interval begins exactly one
\* precision after the end of the interval before it.
C5_Contiguity ==
    Returned =>
        \A i \in 1..(Len(result) - 1) :
            result[i + 1][1].datetime =
                NaiveAdd(result[i][2].datetime, args.end_precision)

C5_Witness ==
    /\ Returned
    /\ args.grouping = "PerMonth"
    /\ args.local_timezone # Utc
    /\ Len(result) >= 3

\* C6: begin enclosure.  In every non-empty result the first interval begins
\* at or before begin when extend_begin is set, and at begin only if begin is
\* a local boundary; it begins at or after begin when extend_begin is not set.
C6_BeginEnclosure ==
    (Returned /\ result # <<>>) =>
        IF args.extend_begin
        THEN /\ dt_le(First(result)[1], args.begin)
             /\ dt_eq(First(result)[1], args.begin) =>
                    IsBoundary(args.begin, args.grouping, args.local_timezone)
        ELSE dt_le(args.begin, First(result)[1])

\* begin on a Monday midnight of the local zone, found as the first begin.
C6_Witness ==
    /\ Returned /\ result # <<>>
    /\ args.extend_begin
    /\ args.grouping = "PerWeek"
    /\ args.local_timezone # Utc
    /\ dt_eq(First(result)[1], args.begin)

\* C7: end enclosure.  In every non-empty result the last interval ends at or
\* after end when extend_end is set, and at or before end when it is not.
C7_EndEnclosure ==
    (Returned /\ result # <<>>) =>
        IF args.extend_end
        THEN dt_le(args.end, Last(result)[2])
        ELSE dt_le(Last(result)[2], args.end)

C7_Witness ==
    /\ Returned /\ Len(result) >= 2
    /\ args.extend_end
    /\ dt_lt(args.end, Last(result)[2])

\* C8 as stated: with extend_end set and begin < end, the last interval
\* encloses end, last.begin <= end <= last.end, for either extend_begin.
C8_LastEnclosesEnd ==
    (Returned /\ ByGenerator /\ args.extend_end /\ BeginBeforeEnd) =>
        /\ result # <<>>
        /\ dt_le(Last(result)[1], args.end)
        /\ dt_le(args.end, Last(result)[2])

\* end lies strictly inside the precision gap before the boundary after it:
\* boundary - precision < end < boundary.
EndInPrecisionGap ==
    LET b == FirstBoundaryAfter(args.end, args.grouping, args.local_timezone)
    IN  NaiveLess(NaiveAdd(b.datetime, Duration_neg(args.end_precision)),
                  args.end.datetime)

\* C8 amended: with extend_end set and begin < end, the result is not empty
\* and its last interval ends at or after end; it also begins at or before
\* end when extend_begin is set and end is not strictly inside a precision gap.
C8_LastReachesEnd ==
    (Returned /\ ByGenerator /\ args.extend_end /\ BeginBeforeEnd) =>
        /\ result # <<>>
        /\ dt_le(args.end, Last(result)[2])
        /\ (args.extend_begin /\ ~EndInPrecisionGap) =>
               dt_le(Last(result)[1], args.end)

C8_Witness ==
    /\ Returned /\ ByGenerator /\ args.extend_end /\ BeginBeforeEnd
    /\ args.extend_begin /\ ~EndInPrecisionGap
    /\ Len(result) >= 2
    /\ dt_lt(Last(result)[1], args.end)
    /\ dt_lt(args.end, Last(result)[2])

\* The local calendar view of a returned instant.
Local(dt) == naive_local(with_timezone(dt, args.local_timezone))

IsLocalMidnight(dt) == Local(dt).s = 0 /\ Local(dt).n = 0

PrecisionIsPositive ==
    args.end_precision.secs > 0
      \/ (args.end_precision.secs = 0 /\ args.end_precision.nanos > 0)

PrecisionAtMostOneDay ==
    args.end_precision.secs < SecsPerDay
      \/ (args.end_precision.secs = SecsPerDay /\ args.end_precision.nanos = 0)

\* C9 as stated: PerDay intervals begin at local midnight and end on the
\* same local date, 24h minus precision after the begin.
C9_PerDayAlignment ==
    (Returned /\ args.grouping = "PerDay") =>
        \A i \in 1..Len(result) :
            /\ IsLocalMidnight(result[i][1])
            /\ Local(result[i][2]).d = Local(result[i][1]).d
            /\ result[i][2].datetime =
                 NaiveAdd(NaiveAdd(result[i][1].datetime, Duration_seconds(SecsPerDay)),
                          Duration_neg(args.end_precision))

\* C9 amended: PerDay intervals begin at local midnight and end 24h minus
\* precision after the begin; the end is on the begin's local date when
\* 0 < precision <= 24h.
C9_PerDayAlignmentForSanePrecision ==
    (Returned /\ args.grouping = "PerDay") =>
        \A i \in 1..Len(result) :
            /\ IsLocalMidnight(result[i][1])
            /\ (PrecisionIsPositive /\ PrecisionAtMostOneDay) =>
                   Local(result[i][2]).d = Local(result[i][1]).d
            /\ result[i][2].datetime =
                 NaiveAdd(NaiveAdd(result[i][1].datetime, Duration_seconds(SecsPerDay)),
                          Duration_neg(args.end_precision))

C9_Witness ==
    /\ Returned /\ args.grouping = "PerDay"
    /\ args.end_precision = Duration_milliseconds(1)
    /\ args.local_timezone = FixedOffset_west(7 * 3600)
    /\ Len(result) >= 3
    /\ Local(Last(result)[2]).s = 86399
    /\ Local(Last(result)[2]).n = 999000000

\* C10 as stated: PerWeek intervals begin on a Monday at local midnight and,
\* for a precision of at most one day, end on the following Sunday, 7 days
\* minus precision after the begin.
C10_PerWeekAlignment ==
    (Returned /\ args.grouping = "PerWeek") =>
        \A i \in 1..Len(result) :
            /\ IsLocalMidnight(result[i][1])
            /\ weekday_of_days(Local(result[i][1]).d) = 0
            /\ PrecisionAtMostOneDay =>
                   /\ weekday_of_days(Local(result[i][2]).d) = 6
                   /\ Local(result[i][2]).d = Local(result[i][1]).d + 6
            /\ result[i][2].datetime =
                 NaiveAdd(NaiveAdd(result[i][1].datetime, Duration_seconds(7 * SecsPerDay)),
                          Duration_neg(args.end_precision))

\* C10 amended: the same, the end being on the following Sunday for
\* 0 < precision <= one day.
C10_PerWeekAlignmentForSanePrecision ==
    (Returned /\ args.grouping = "PerWeek") =>
        \A i \in 1..Len(result) :
            /\ IsLocalMidnight(result[i][1])
            /\ weekday_of_days(Local(result[i][1]).d) = 0
            /\ (PrecisionIsPositive /\ PrecisionAtMostOneDay) =>
                   /\ weekday_of_days(Local(result[i][2]).d) = 6
                   /\ Local(result[i][2]).d = Local(result[i][1]).d + 6
            /\ result[i][2].datetime =
                 NaiveAdd(NaiveAdd(result[i][1].datetime, Duration_seconds(7 * SecsPerDay)),
                          Duration_neg(args.end_precision))

C10_Witness ==
    /\ Returned /\ args.grouping = "PerWeek"
    /\ args.end_precision = Duration_hours(24)
    /\ args.local_timezone = FixedOffset_west(-2 * 3600)
    /\ ~args.extend_begin
    /\ Len(result) >= 2
    /\ weekday_of_days(Local(Last(result)[2]).d) = 6

\* C11: PerMonth alignment.  Every returned interval begins on day-of-month 1
\* at local midnight, and its end plus precision is the first-of-month
\* midnight that follows the begin, 28 to 31 days later, whatever the
\* precision.
C11_PerMonthAlignment ==
    (Returned /\ args.grouping = "PerMonth") =>
        \A i \in 1..Len(result) :
            LET b == result[i][1]
                boundary == dt_add(result[i][2], args.end_precision)
            IN  /\ IsLocalMidnight(b)
                /\ civil_from_days(Local(b).d).day = 1
                /\ dt_eq(boundary,
                         FirstBoundaryAfter(b, "PerMonth", args.local_timezone))
                /\ Local(boundary).d - Local(b).d \in 28..31

\* The leap February of 2024 returned after January, in a zone west of UTC.
C11_Witness ==
    /\ Returned /\ args.grouping = "PerMonth"
    /\ args.local_timezone = FixedOffset_west(7 * 3600)
    /\ \E i \in 2..Len(result) :
          /\ Local(result[i][1]).d = days_from_civil(2024, 2, 1)
          /\ Local(dt_add(result[i][2], args.end_precision)).d
               = days_from_civil(2024, 3, 1)

SubSecondPrecisions ==
    { Duration_milliseconds(1), Duration_microseconds(1), Duration_nanoseconds(1) }

\* C12: precision round-trip.  For a precision of 1ms, 1us or 1ns and every
\* grouping, the end of every returned interval, the last one included, plus
\* the precision is the first local boundary after the interval's begin; the
\* end itself shows 23:59:59 and one second minus the precision.
C12_PrecisionRoundTrip ==
    (Returned /\ args.end_precision \in SubSecondPrecisions) =>
        \A i \in 1..Len(result) :
            /\ dt_eq(dt_add(result[i][2], args.end_precision),
                     FirstBoundaryAfter(result[i][1], args.grouping,
                                        args.local_timezone))
            /\ Local(result[i][2]).s = SecsPerDay - 1
            /\ Local(result[i][2]).n = NanosPerSec - args.end_precision.nanos

\* Three days at microsecond precision, the last one ending at
\* 23:59:59.999999.
C12_Witness ==
    /\ Returned /\ args.grouping = "PerDay"
    /\ args.end_precision = Duration_microseconds(1)
    /\ Len(result) >= 3
    /\ Local(Last(result)[2]).n = 999999000
    /\ IsBoundary(dt_add(Last(result)[2], args.end_precision), "PerDay",
                  args.local_timezone)

\* The walker behind the call that returned, as a function of its arguments.
walker(a) == IF ByGenerator THEN get_intervals_impl(a) ELSE intervals_get_intervals_impl(a)

\* The stepwise walkers return what the functions compute.
WalkerAgreement == Returned => result = walker(args)

\* A sequence of intervals with every instant moved by k seconds.
shifted(ivs, k) ==
    [ i \in 1..Len(ivs) |-> << dt_add(ivs[i][1], Duration_seconds(k)),
                               dt_add(ivs[i][2], Duration_seconds(k)) >> ]

\* The arguments of the call with the offset west of UTC changed from w to
\* w + k seconds and begin and end moved by d seconds.
with_offset_shift(a, w, k, d) ==
    [ a EXCEPT !.local_timezone = FixedOffset_west(w + k),
               !.begin = dt_add(a.begin, Duration_seconds(d)),
               !.end = dt_add(a.end, Duration_seconds(d)) ]

OffsetShifts == {3600, -5 * 3600}

\* C13 as stated: raising offset_west_seconds by k moves every boundary by
\* -k seconds in UTC, so the call with offset w + k and the span moved by -k
\* returns the intervals of the call with offset w moved by -k.
C13_BoundariesShiftAgainstOffset ==
    Returned =>
        \A w \in OffsetsWest : \A k \in OffsetShifts :
            FixedOffset_west(w) = args.local_timezone =>
                walker(with_offset_shift(args, w, k, -k)) = shifted(result, -k)

\* C13 amended: raising offset_west_seconds by k moves every boundary by +k
\* seconds in UTC; the call with offset w + k and the span moved by +k
\* returns the intervals of the call with offset w moved by +k.
C13_BoundariesShiftWithOffset ==
    Returned =>
        \A w \in OffsetsWest : \A k \in OffsetShifts :
            FixedOffset_west(w) = args.local_timezone =>
                walker(with_offset_shift(args, w, k, k)) = shifted(result, k)

\* Offset 7h west lowered by five hours: the boundaries move from 07:00:00
\* to 02:00:00 UTC.
C13_Witness ==
    /\ Returned /\ Len(result) >= 2
    /\ args.local_timezone = FixedOffset_west(7 * 3600)
    /\ First(result)[1].datetime.s = 7 * 3600
    /\ First(walker(with_offset_shift(args, 7 * 3600, -5 * 3600, -5 * 3600)))[1].datetime.s
         = 2 * 3600

\* C14: with offset_west_seconds = w every returned begin is a boundary of
\* the time reference w seconds west of UTC.  Expressed in UTC it shows the
\* time of day w seconds after 00:00:00, on the local date for w >= 0 and on
\* the UTC day before it for w < 0; for PerMonth the local date is the first
\* of a month, for PerWeek a Monday.
C14_BeginsOnWestBoundaries ==
    Returned =>
        \A w \in OffsetsWest :
            FixedOffset_west(w) = args.local_timezone =>
                \A i \in 1..Len(result) :
                    LET b == result[i][1]
                        west == NaiveAdd(b.datetime, Duration_seconds(-w))
                    IN  /\ b.offset = Utc
                        /\ west.s = 0 /\ west.n = 0
                        /\ IsBoundaryDay(west.d, args.grouping)
                        /\ b.datetime.s = w % SecsPerDay
                        /\ b.datetime.n = 0
                        /\ b.datetime.d = IF w < 0 THEN west.d - 1 ELSE west.d
                        /\ args.grouping = "PerMonth" =>
                               civil_from_days(west.d).day = 1

\* Months two hours east of UTC: the begins show 22:00:00 of the last UTC
\* day of the month before.
C14_Witness ==
    /\ Returned /\ args.grouping = "PerMonth"
    /\ args.local_timezone = FixedOffset_west(-2 * 3600)
    /\ Len(result) >= 2
    /\ First(result)[1].datetime.s = 22 * 3600
    /\ civil_from_days(First(result)[1].datetime.d + 1).day = 1

\* Pairs of display offsets for begin and end.
DisplayOffsets == { <<19800, -7 * 3600>> }

\* The arguments with begin and end written in other display zones.
redisplayed(a, off_begin, off_end) ==
    [ a EXCEPT !.begin = with_timezone(a.begin, off_begin),
               !.end = with_timezone(a.end, off_end) ]

\* C15: the result depends on the instants of begin and end only.  The same
\* call with begin and end written in any other display offsets returns the
\* same sequence; every returned instant is expressed in UTC and every
\* begin is a midnight of the configured local offset.
C15_DisplayOffsetIrrelevant ==
    Returned =>
        /\ \A off \in DisplayOffsets :
               walker(redisplayed(args, off[1], off[2])) = result
        /\ \A i \in 1..Len(result) :
               /\ result[i][1].offset = Utc
               /\ result[i][2].offset = Utc
               /\ IsLocalMidnight(result[i][1])

\* begin written at +02:00 on a date that is the next day there but not in
\* the local zone UTC: the first returned day is the UTC date.
C15_Witness ==
    /\ Returned /\ args.grouping = "PerDay" /\ args.extend_begin
    /\ args.begin.offset = 7200
    /\ args.local_timezone = Utc
    /\ Len(result) >= 2
    /\ naive_local(args.begin).d = args.begin.datetime.d + 1
    /\ First(result)[1].datetime.d = args.begin.datetime.d
    /\ First(walker(redisplayed(args, 19800, -7 * 3600)))[1].datetime.d
         = args.begin.datetime.d

\* C16: get_utc_intervals_opts returns, for every input, begin >= end
\* included, the sequence that an IntervalGenerator configured with the same
\* grouping, offset, precision and flags returns, and conversely.
C16_FreeFunctionMirrorsGenerator ==
    /\ (Returned /\ api = "get_utc_intervals_opts") => result = get_intervals_impl(args)
    /\ (Returned /\ ByGenerator) => result = intervals_get_intervals_impl(args)

\* C17: defaults.  IntervalGenerator::new() holds PerDay, one millisecond,
\* offset 0 and both extension flags set, and a generator left as new() made
\* it returns what these settings give; get_extended_utc_intervals_with_defaults
\* returns what get_utc_intervals_opts returns for the same begin, end,
\* grouping and offset with 1ms, true, true.
C17_Defaults ==
    LET defaults == [ grouping       |-> "PerDay",
                      end_precision  |-> [secs |-> 0, nanos |-> 1000000],
                      local_timezone |-> 0,
                      extend_begin   |-> TRUE,
                      extend_end     |-> TRUE ]
    IN  /\ IntervalGenerator_new = defaults
        /\ (Returned /\ ByGenerator /\ gen = IntervalGenerator_new) =>
               result = get_intervals_value(defaults, args.begin, args.end)
        /\ (Returned /\ api = "get_extended_utc_intervals_with_defaults") =>
               \A w \in OffsetsWest :
                   FixedOffset_west(w) = args.local_timezone =>
                       result = get_utc_intervals_opts_value(
                                    args.begin, args.end, args.grouping, w,
                                    [secs |-> 0, nanos |-> 1000000], TRUE, TRUE)

\* Weeks returned by the defaults function seven hours west of UTC, the last
\* one ending on a .999 second.
C17_Witness ==
    /\ Returned /\ api = "get_extended_utc_intervals_with_defaults"
    /\ args.grouping = "PerWeek"
    /\ args.local_timezone = FixedOffset_west(7 * 3600)
    /\ Len(result) >= 2
    /\ Last(result)[2].datetime.n = 999000000
    /\ dt_lt(args.begin, First(result)[2])
    /\ dt_le(args.end, Last(result)[2])

\* C18: with extend_begin and extend_end both off, every returned interval
\* lies strictly inside the span: begin < b_i and e_i < end.  A period that
\* starts exactly at begin, or whose end is exactly end, is not returned.
C18_StrictlyInsideWithoutExtension ==
    (Returned /\ ~args.extend_begin /\ ~args.extend_end) =>
        \A i \in 1..Len(result) :
            /\ dt_lt(args.begin, result[i][1])
            /\ dt_lt(result[i][2], args.end)

\* begin on a local midnight and end on the last millisecond of a later
\* day, precision 1ms: the days strictly between are returned, the day of
\* begin and the day ending at end are not.
C18_Witness ==
    /\ Returned /\ ~args.extend_begin /\ ~args.extend_end
    /\ args.grouping = "PerDay"
    /\ args.end_precision = Duration_milliseconds(1)
    /\ IsBoundary(args.begin, "PerDay", args.local_timezone)
    /\ IsBoundary(dt_add(args.end, args.end_precision), "PerDay", args.local_timezone)
    /\ result # <<>>
    /\ Local(First(result)[1]).d = Local(args.begin).d + 1
    /\ Local(Last(result)[2]).d = Local(args.end).d - 1

\* The shortest period of a grouping, in days.
MinPeriodDays(g) == CASE g = "PerDay" -> 1 [] g = "PerWeek" -> 7 [] g = "PerMonth" -> 28

PrecisionBelowPeriod ==
    args.end_precision.secs < MinPeriodDays(args.grouping) * SecsPerDay

\* C19: for a precision p with 0 < p < the grouping period every returned
\* interval has begin < end and ends before the next one begins:
\* b_i < e_i < b_(i+1).
C19_StrictlyIncreasing ==
    (Returned /\ PrecisionIsPositive /\ PrecisionBelowPeriod) =>
        \A i \in 1..Len(result) :
            /\ dt_lt(result[i][1], result[i][2])
            /\ i < Len(result) => dt_lt(result[i][2], result[i + 1][1])

\* Months with a precision of 8 days: each interval ends 8 days before the
\* next one begins.
C19_Witness ==
    /\ Returned /\ args.grouping = "PerMonth"
    /\ args.end_precision = Duration_days(8)
    /\ Len(result) >= 3
    /\ dt_lt(result[1][1], result[1][2])
    /\ dt_eq(dt_add(result[2][2], Duration_days(8)), result[3][1])

\* The end of the local period that begins at the boundary b: the boundary
\* after b minus the precision.
PeriodEnd(b) ==
    dt_sub(FirstBoundaryAfter(b, args.grouping, args.local_timezone),
           args.end_precision)

\* The number of local periods from the one beginning at b to the one
\* containing end.
PeriodsTouched(b) ==
    Cardinality({ d \in Local(b).d .. Local(args.end).d :
                    IsBoundaryDay(d, args.grouping) })

\* The result is the run of consecutive local periods P_0 .. P_n: P_0 is
\* the period containing begin, every next interval is the period right
\* after, each ends one precision before the following boundary, and P_n is
\* the first whose end is >= end.
RunOfConsecutivePeriods ==
    /\ result # <<>>
    /\ IsBoundary(First(result)[1], args.grouping, args.local_timezone)
    /\ dt_le(First(result)[1], args.begin)
    /\ dt_lt(args.begin, FirstBoundaryAfter(First(result)[1], args.grouping,
                                            args.local_timezone))
    /\ \A i \in 1..Len(result) :
           /\ dt_eq(result[i][2], PeriodEnd(result[i][1]))
           /\ i < Len(result) =>
                  /\ dt_eq(result[i + 1][1],
                           FirstBoundaryAfter(result[i][1], args.grouping,
                                              args.local_timezone))
                  /\ dt_lt(result[i][2], args.end)
    /\ dt_le(args.end, Last(result)[2])

\* C20 as stated: with both extension flags set and begin < end the result
\* is the run of consecutive local periods from the one containing begin to
\* the first whose end is >= end, and for end not inside a precision gap
\* this is one interval per local period touched by [begin, end].
C20_OneIntervalPerPeriodTouched ==
    (Returned /\ args.extend_begin /\ args.extend_end /\ BeginBeforeEnd) =>
        /\ RunOfConsecutivePeriods
        /\ ~EndInPrecisionGap => Len(result) = PeriodsTouched(First(result)[1])

\* C20 amended: the same run of consecutive periods; it is one interval per
\* local period touched by [begin, end] when the precision is positive and
\* end is not inside a precision gap.
C20_ConsecutivePeriods ==
    (Returned /\ args.extend_begin /\ args.extend_end /\ BeginBeforeEnd) =>
        /\ RunOfConsecutivePeriods
        /\ (PrecisionIsPositive /\ ~EndInPrecisionGap) =>
               Len(result) = PeriodsTouched(First(result)[1])

\* Three days, begin and end strictly inside the first and the last one.
C20_Witness ==
    /\ Returned /\ args.extend_begin /\ args.extend_end /\ BeginBeforeEnd
    /\ args.grouping = "PerDay"
    /\ args.end_precision = Duration_milliseconds(1)
    /\ ~EndInPrecisionGap
    /\ Len(result) = 3
    /\ dt_lt(First(result)[1], args.begin)
    /\ dt_lt(Last(result)[1], args.end)
    /\ dt_lt(args.end, Last(result)[2])

\* The local period that begins at the boundary b, as a returned interval.
PeriodFrom(b) == << with_timezone(b, Utc), with_timezone(PeriodEnd(b), Utc) >>

\* The boundary that begins the local period containing begin.
BoundaryAtOrBeforeBegin ==
    IF IsBoundary(args.begin, args.grouping, args.local_timezone)
    THEN args.begin
    ELSE LET l == Local(args.begin)
             back == CASE args.grouping = "PerDay" -> 0
                       [] args.grouping = "PerWeek" -> weekday_of_days(l.d)
                       [] args.grouping = "PerMonth" -> civil_from_days(l.d).day - 1
         IN  LocalInstant(l.d - back, [s |-> 0, n |-> 0], args.local_timezone)

\* end is later than the end of the local period containing begin.
EndAfterFirstPeriod == dt_lt(PeriodEnd(BoundaryAtOrBeforeBegin), args.end)

\* What the flags of the call add to the sequence inner that the same call
\* returns with both flags off: the period containing begin in front
\* for extend_begin, the period after the last one behind for extend_end.
WithExtensions(inner) ==
    LET front == IF args.extend_begin
                 THEN <<PeriodFrom(BoundaryAtOrBeforeBegin)>> \o inner
                 ELSE inner
        after == IF front = <<>>
                 THEN FirstBoundaryAfter(args.begin, args.grouping, args.local_timezone)
                 ELSE FirstBoundaryAfter(Last(front)[1], args.grouping,
                                         args.local_timezone)
    IN  IF args.extend_end THEN Append(front, PeriodFrom(after)) ELSE front

WithoutExtensions == [args EXCEPT !.extend_begin = FALSE, !.extend_end = FALSE]

\* C21 as stated: when end is later than the end of the local period
\* containing begin, the call returns the sequence of the same call with
\* both flags off, with the period containing begin prepended for
\* extend_begin and one period appended for extend_end, so N + [extend_begin]
\* + [extend_end] intervals.
C21_FlagsAddOnePeriodEach ==
    (Returned /\ EndAfterFirstPeriod) =>
        LET inner == walker(WithoutExtensions)
        IN  /\ result = WithExtensions(inner)
            /\ Len(result) = Len(inner) + (IF args.extend_begin THEN 1 ELSE 0)
                                        + (IF args.extend_end THEN 1 ELSE 0)

\* C21 amended: the same for begin < end.
C21_FlagsAddOnePeriodEachForProperSpan ==
    (Returned /\ BeginBeforeEnd /\ EndAfterFirstPeriod) =>
        LET inner == walker(WithoutExtensions)
        IN  /\ result = WithExtensions(inner)
            /\ Len(result) = Len(inner) + (IF args.extend_begin THEN 1 ELSE 0)
                                        + (IF args.extend_end THEN 1 ELSE 0)

\* Four days returned with both flags where two are returned without.
C21_Witness ==
    /\ Returned /\ BeginBeforeEnd /\ EndAfterFirstPeriod
    /\ args.grouping = "PerDay"
    /\ args.extend_begin /\ args.extend_end
    /\ Len(walker(WithoutExtensions)) = 2
    /\ Len(result) = 4
    /\ dt_lt(First(result)[1], args.begin)
    /\ dt_lt(args.end, Last(result)[2])

\* The calendar month of the date dt shows in its own zone, counted from
\* year 0.
MonthIndex(dt) == year(dt) * 12 + month(dt) - 1

\* n is 00:00:00 on day 1 of the calendar month after that of dt, in the
\* zone of dt: month m + 1 of the same year, or January of the next year
\* after December.
IsStartOfFollowingMonth(n, dt) ==
    /\ n.offset = dt.offset
    /\ naive_local(n).s = 0
    /\ naive_local(n).n = 0
    /\ civil_from_days(naive_local(n).d).day = 1
    /\ IF month(dt) = 12
       THEN year(n) = year(dt) + 1 /\ month(n) = 1
       ELSE year(n) = year(dt) /\ month(n) = month(dt) + 1

\* C22: month stepping is field-based.  next_month_start, in either copy,
\* maps the localized begin of a PerMonth call to the first day of the
\* following calendar month, rolling the year after December; the begins of
\* the returned months, each the next_month_start of the one before, visit
\* the calendar months one by one in order.
C22_MonthSteppingByFields ==
    (Returned /\ args.grouping = "PerMonth") =>
        LET l == with_timezone(args.begin, args.local_timezone)
        IN  /\ IsStartOfFollowingMonth(next_month_start(l), l)
            /\ IsStartOfFollowingMonth(intervals_next_month_start(l), l)
            /\ \A i \in 1..(Len(result) - 1) :
                   LET b == with_timezone(result[i][1], args.local_timezone)
                       n == with_timezone(result[i + 1][1], args.local_timezone)
                   IN  /\ IsStartOfFollowingMonth(n, b)
                       /\ MonthIndex(n) = MonthIndex(b) + 1
                       /\ dt_eq(n, IF ByGenerator THEN next_month_start(b)
                                                  ELSE intervals_next_month_start(b))

\* December 2023, January, the leap February and March 2024 in one result.
C22_Witness ==
    /\ Returned /\ args.grouping = "PerMonth" /\ Len(result) >= 4
    /\ args.local_timezone = FixedOffset_west(-2 * 3600)
    /\ LET months == [ i \in 1..4 |->
                         MonthIndex(with_timezone(result[i][1], args.local_timezone)) ]
       IN  months = << 2023 * 12 + 11, 2024 * 12, 2024 * 12 + 1, 2024 * 12 + 2 >>

\* The initial pair computed by the walker behind the call.
initial_pair == IF ByGenerator THEN initial_begin_end(args)
                               ELSE intervals_initial_begin_end(args)

\* C23: PerWeek initial boundary.  With d the weekday of the localized begin
\* counted from Monday = 0, the initial begin is the local midnight of
\* begin's date minus d days with extend_begin and plus 7 - d days without;
\* it is a Monday midnight, the Monday 7 days later for a begin on a Monday
\* without extend_begin, and the first returned begin when anything is
\* returned.
C23_PerWeekInitialBoundary ==
    (Returned /\ args.grouping = "PerWeek") =>
        LET date == Local(args.begin).d
            d == weekday_of_days(date)
            init_begin == initial_pair[1]
        IN  /\ Local(init_begin).d = (IF args.extend_begin THEN date - d
                                                          ELSE date + (7 - d))
            /\ IsLocalMidnight(init_begin)
            /\ weekday_of_days(Local(init_begin).d) = 0
            /\ (d = 0 /\ ~args.extend_begin) => Local(init_begin).d = date + 7
            /\ result # <<>> => dt_eq(First(result)[1], init_begin)

\* A begin on a Monday without extend_begin: the first week returned begins
\* on the Monday after.
C23_Witness ==
    /\ Returned /\ args.grouping = "PerWeek" /\ BeginBeforeEnd
    /\ ~args.extend_begin
    /\ weekday_of_days(Local(args.begin).d) = 0
    /\ result # <<>>
    /\ Local(First(result)[1]).d = Local(args.begin).d + 7

\* The number of boundaries b, b', ... of the call's grouping from the
\* boundary b on that lie before end.
RECURSIVE PeriodsBefore(_, _)
PeriodsBefore(b, end) ==
    IF dt_lt(b, end)
    THEN 1 + PeriodsBefore(FirstBoundaryAfter(b, args.grouping, args.local_timezone), end)
    ELSE 0

PrecisionAtMostPeriod ==
    \/ args.end_precision.secs < MinPeriodDays(args.grouping) * SecsPerDay
    \/ /\ args.end_precision.secs = MinPeriodDays(args.grouping) * SecsPerDay
       /\ args.end_precision.nanos = 0

\* Every call that entered the loop returns.
WalkerTerminates == (pc = "loop") ~> (pc = "done")

\* Each iteration moves cur_end to the same distance before the next
\* boundary, at least 24 hours later, whatever the precision.
LoopAdvancesByAPeriod ==
    [][ (pc = "loop" /\ pc' = "loop") =>
          /\ dt_eq(dt_add(cur_end', args.end_precision),
                   FirstBoundaryAfter(dt_add(cur_end, args.end_precision),
                                      args.grouping, args.local_timezone))
          /\ dt_le(dt_add(cur_end, Duration_hours(24)), cur_end') ]_vars

\* C24 as stated: the loop terminates for every input, each iteration
\* advancing cur_end by a full period, and at most one interval more is
\* returned than there are periods between the initial begin and end.
C24_TerminatesWithinSpan ==
    /\ WalkerTerminates
    /\ LoopAdvancesByAPeriod
    /\ [](Returned => Len(result) <= PeriodsBefore(initial_pair[1], args.end) + 1)

\* C24 amended: the loop terminates for every input, each iteration
\* advancing cur_end by a full period; at most one interval more is
\* returned than there are periods between the initial begin and end when
\* the precision is at most the grouping period.
C24_Terminates ==
    /\ WalkerTerminates
    /\ LoopAdvancesByAPeriod
    /\ []((Returned /\ PrecisionAtMostPeriod) =>
             Len(result) <= PeriodsBefore(initial_pair[1], args.end) + 1)

\* A precision of 24 hours with PerDay: the bound is reached.
C24_Witness ==
    /\ Returned /\ BeginBeforeEnd
    /\ args.grouping = "PerDay"
    /\ args.end_precision = Duration_hours(24)
    /\ Len(result) >= 3
    /\ Len(result) = PeriodsBefore(initial_pair[1], args.end) + 1

\* The initial pair of the call had its precision been q.
initial_pair_with_precision(q) ==
    IF ByGenerator THEN initial_begin_end([args EXCEPT !.end_precision = q])
                   ELSE intervals_initial_begin_end([args EXCEPT !.end_precision = q])

\* C25: precision is not validated.  For every precision, those of a period
\* or more, zero and negative ones included, the call returns and every
\* returned interval ends at the first boundary after its begin minus the
\* precision: at or before its begin when the precision covers the period,
\* at or past the next boundary (and the next interval's begin) when the
\* precision is zero or negative.  The begins are the consecutive boundaries
\* from the initial begin that a precision of zero would give, whatever the
\* precision of the call.
C25_PrecisionNotValidated ==
    Returned =>
      LET g  == args.grouping
          tz == args.local_timezone
          p  == args.end_precision
      IN  /\ result # <<>> =>
                dt_eq(First(result)[1],
                      initial_pair_with_precision(Duration_seconds(0))[1])
          /\ \A i \in 1..Len(result) :
                LET b  == result[i][1]
                    e  == result[i][2]
                    nb == FirstBoundaryAfter(b, g, tz)
                IN  /\ IsBoundary(b, g, tz)
                    /\ i < Len(result) => dt_eq(result[i + 1][1], nb)
                    /\ dt_eq(dt_add(e, p), nb)
                    /\ dt_le(nb, dt_add(b, p)) => dt_le(e, b)
                    /\ ~PrecisionIsPositive =>
                          /\ dt_ge(e, nb)
                          /\ i < Len(result) => dt_ge(e, result[i + 1][1])

\* A PerWeek call with a precision of 8 days that returned two intervals,
\* each ending before it begins.
C25_Witness ==
    /\ Returned
    /\ args.grouping = "PerWeek"
    /\ args.end_precision = Duration_days(8)
    /\ Len(result) >= 2
    /\ \A i \in 1..Len(result) : dt_lt(result[i][2], result[i][1])

\* C26: every input is valid.  For any instants, grouping, local offset in
\* seconds (magnitudes of one day or more included), precision and flags,
\* the generation functions and with_offset_west_secs complete and have no
\* failure outcome: no call ends in a panic.
C26_EveryInputValid == pc # "panicked"

\* The fields of the configuration other than those in the set changed are
\* the same after the step.
OnlyChanges(changed) ==
    \A f \in DOMAIN gen \ changed : gen'[f] = gen[f]

\* The step belongs to a call of get_intervals: its entry, a step of its
\* walker or its return.
GetIntervalsStep ==
    /\ api' = "get_intervals"
    /\ pc # "idle" \/ pc' # "idle"

\* Each builder method changes its own field only, and get_intervals with
\* its walker changes none.
BuildersChangeOwnField ==
    [][ /\ with_grouping => OnlyChanges({"grouping"})
        /\ with_precision => OnlyChanges({"end_precision"})
        /\ with_offset_west_secs => OnlyChanges({"local_timezone"})
        /\ without_extended_begin =>
              OnlyChanges({"extend_begin"}) /\ ~gen'.extend_begin
        /\ without_extended_end =>
              OnlyChanges({"extend_end"}) /\ ~gen'.extend_end
        /\ GetIntervalsStep => gen' = gen ]_vars

\* C27: configuration frame.  Each builder method changes only its own field
\* and leaves the other four unchanged, in any order of calls; get_intervals
\* does not change the configuration, and what it returns is the function
\* get_intervals_value of the configuration, begin and end, so repeated
\* calls on the same generator with the same begin and end return identical
\* sequences.
C27_ConfigurationFrame ==
    /\ BuildersChangeOwnField
    /\ []((Returned /\ ByGenerator) =>
             result = get_intervals_value(gen, args.begin, args.end))

\* A call returned on a generator whose five fields were all changed by
\* builder calls.
C27_Witness ==
    /\ Returned /\ ByGenerator
    /\ \A f \in DOMAIN gen : gen[f] # IntervalGenerator_new[f]
    /\ result # <<>>

====
